---- MODULE Spec2Model ----
(***************************************************************************)
(* A model of the streaming-iterator crate (src/src/lib.rs).               *)
(*                                                                         *)
(* A cursor is a record whose `kind` names the struct and whose other      *)
(* fields are the struct's fields.  Option<T> is a sequence of length at   *)
(* most one: None is << >> and Some(x) is <<x>>.  Every cursor carries one  *)
(* history field, `adv`, that counts the calls that moved it (advance, or  *)
(* an overridden next); no operation of the program reads it.              *)
(***************************************************************************)
EXTENDS Integers, Sequences, FiniteSets, TLC

\* ---------------------------------------------------------------- bounds
MaxLen == 3       \* longest source under a single adaptor (Spec, SpecTS)
MaxN == 2         \* a single skip(n) or take(n) is built with n in 0..MaxN
MaxNth == 2       \* nth(n) is called with n in 0..MaxNth
MaxDepth == 2     \* adaptors stacked on a source (SpecChain)
MaxChainLen == 2  \* longest source under a stack of adaptors (SpecChain)
MaxChainN == 1    \* skip(n) and take(n) in a stack are built with n in 0..MaxChainN
MaxAdv == 5       \* calls that move the outermost cursor in one run

\* The values the source sequences are made of.
Vals == {0, 1, 2}

None == << >>
Some(x) == <<x>>
Min(a, b) == IF a < b THEN a ELSE b
Monus(a, b) == IF a > b THEN a - b ELSE 0

RECURSIVE SeqsUpTo(_)
SeqsUpTo(n) ==
    IF n = 0 THEN {<< >>}
    ELSE LET S == SeqsUpTo(n - 1)
         IN  S \cup {Append(s, v) : s \in {t \in S : Len(t) = n - 1}, v \in Vals}

\* ------------------------------------------------------------- closures
\* A predicate closure F: FnMut(&Item) -> bool, by name.  "!p" is the closure
\* |i| !p(i) that SkipWhile hands to find.
FilterPreds == {"even"}
SkipWhilePreds == {"lt2"}

ApplyPred(f, x) ==
    CASE f = "even" -> x % 2 = 0
      [] f = "lt2" -> x < 2
      [] f = "!even" -> ~(x % 2 = 0)
      [] f = "!lt2" -> ~(x < 2)

Not(f) == CASE f = "even" -> "!even" [] f = "lt2" -> "!lt2"

\* Map's closure F: FnMut(&Item) -> B.
MapFns == {"inc"}
ApplyMap(f, x) == CASE f = "inc" -> x + 1

\* FilterMap's closure F: FnMut(&Item) -> Option<B>.
FilterMapFns == {"halfEven"}
ApplyFilterMap(f, x) == CASE f = "halfEven" -> IF x % 2 = 0 THEN Some(x \div 2) ELSE None

\* ----------------------------------------- the std Iterator under Convert
\* A slice iterator: `slice` holds the elements not yet produced.  next pops
\* the front and keeps answering None once empty; size_hint and count are exact.
Iter(s) == [slice |-> s]
Iter_next(i) == IF i.slice = << >> THEN [it |-> i, r |-> None]
                ELSE [it |-> Iter(Tail(i.slice)), r |-> Some(Head(i.slice))]
Iter_size_hint(i) == <<Len(i.slice), Some(Len(i.slice))>>
Iter_count(i) == Len(i.slice)

\* --------------------------------------------------------- constructors
convert(s) == [kind |-> "Convert", it |-> Iter(s), item |-> None, adv |-> 0]
Flicker(v) == [kind |-> "Flicker", v |-> v, adv |-> 0]
filter(c, f) == [kind |-> "Filter", it |-> c, f |-> f, adv |-> 0]
filter_map(c, f) == [kind |-> "FilterMap", it |-> c, f |-> f, item |-> None, adv |-> 0]
fuse(c) == [kind |-> "Fuse", it |-> c, state |-> "Start", adv |-> 0]
map(c, f) == [kind |-> "Map", it |-> c, f |-> f, item |-> None, adv |-> 0]
skip(c, n) == [kind |-> "Skip", it |-> c, n |-> n, adv |-> 0]
skip_while(c, f) == [kind |-> "SkipWhile", it |-> c, f |-> f, done |-> FALSE, adv |-> 0]
take(c, n) == [kind |-> "Take", it |-> c, n |-> n, done |-> FALSE, adv |-> 0]

\* ------------------------------------------------- the trait's dispatch
RECURSIVE advance(_), get(_), next(_), size_hint(_), count(_)

\* StreamingIterator::next, the default: advance, then get.
Default_next(c) == LET c2 == advance(c) IN [c |-> c2, r |-> get(c2)]

\* StreamingIterator::size_hint, the default.
Default_size_hint(c) == <<0, None>>

\* StreamingIterator::nth: n times advance and stop on None, then next.
\* Mutant: no early return when get reports None.
RECURSIVE nth_loop_NoEarlyReturn(_, _)
nth_loop_NoEarlyReturn(c, k) ==
    IF k = 0 THEN next(c) ELSE nth_loop_NoEarlyReturn(advance(c), k - 1)

RECURSIVE nth_loop(_, _)
nth_loop(c, k) ==
    IF k = 0 THEN next(c)
    ELSE LET c2 == advance(c)
         IN  IF get(c2) = None THEN [c |-> c2, r |-> None]
             ELSE nth_loop(c2, k - 1)

nth(c, n) == nth_loop(c, n)

\* StreamingIterator::find: advance until the predicate holds or get is None.
\* Mutant: the loop tests the element before it advances, so an element the
\* cursor already stands on is returned again.
RECURSIVE find_loop_TestsFirst(_, _)
find_loop_TestsFirst(c, f) ==
    LET g == get(c)
    IN  IF g # None /\ ApplyPred(f, g[1]) THEN c
        ELSE LET c2 == advance(c)
             IN  IF get(c2) = None THEN c2 ELSE find_loop_TestsFirst(c2, f)

RECURSIVE find_loop(_, _)
find_loop(c, f) ==
    LET c2 == advance(c)
        g == get(c2)
    IN  IF g = None THEN c2
        ELSE IF ApplyPred(f, g[1]) THEN c2
        ELSE find_loop(c2, f)

find(c, f) == LET c2 == find_loop(c, f) IN [c |-> c2, r |-> get(c2)]

\* StreamingIterator::all: next until an element fails the predicate.
\* Mutant: no short circuit; the cursor is drained before false is returned.
RECURSIVE all_loop_Drains(_, _)
all_loop_Drains(c, f) ==
    LET n == next(c)
    IN  IF n.r = None THEN [c |-> n.c, r |-> TRUE]
        ELSE LET rest == all_loop_Drains(n.c, f)
             IN  [c |-> rest.c, r |-> ApplyPred(f, n.r[1]) /\ rest.r]

RECURSIVE all_loop(_, _)
all_loop(c, f) ==
    LET n == next(c)
    IN  IF n.r = None THEN [c |-> n.c, r |-> TRUE]
        ELSE IF ~ApplyPred(f, n.r[1]) THEN [c |-> n.c, r |-> FALSE]
        ELSE all_loop(n.c, f)

all(c, f) == all_loop(c, f)

\* StreamingIterator::any: !self.all(|i| !f(i)).
any(c, f) == LET a == all(c, Not(f)) IN [c |-> a.c, r |-> ~a.r]

\* StreamingIterator::position: next, counting, until the predicate holds.
\* Mutant: the counter is not incremented.
RECURSIVE position_loop_NoCount(_, _, _)
position_loop_NoCount(c, f, n) ==
    LET x == next(c)
    IN  IF x.r = None THEN [c |-> x.c, r |-> None]
        ELSE IF ApplyPred(f, x.r[1]) THEN [c |-> x.c, r |-> Some(n)]
        ELSE position_loop_NoCount(x.c, f, n)

RECURSIVE position_loop(_, _, _)
position_loop(c, f, n) ==
    LET x == next(c)
    IN  IF x.r = None THEN [c |-> x.c, r |-> None]
        ELSE IF ApplyPred(f, x.r[1]) THEN [c |-> x.c, r |-> Some(n)]
        ELSE position_loop(x.c, f, n + 1)

position(c, f) == position_loop(c, f, 0)

\* StreamingIterator::count, the default: next until the first None.
RECURSIVE Default_count(_)
Default_count(c) ==
    LET n == next(c)
    IN  IF n.r = None THEN 0 ELSE 1 + Default_count(n.c)

\* -------------------------------------------------------------- Flicker
\* The hand-written cursor of test::fuse: a counter, with a gap every four.
Flicker_advance(c) == [c EXCEPT !.v = @ + 1, !.adv = @ + 1]
Flicker_get(c) == IF c.v % 4 = 3 THEN None ELSE Some(c.v)

\* -------------------------------------------------------------- Convert
Convert_advance(c) ==
    LET n == Iter_next(c.it)
    IN  [c EXCEPT !.it = n.it, !.item = n.r, !.adv = @ + 1]
\* Mutant: nothing is reported as soon as the iterator has no more to give.
Convert_get_EndsEarly(c) == IF c.it.slice = << >> THEN None ELSE c.item

Convert_get(c) == c.item
Convert_size_hint(c) == Iter_size_hint(c.it)
\* Mutant: the element currently stored is counted as well.
Convert_count_CountsStored(c) ==
    Iter_count(c.it) + (IF c.item # None THEN 1 ELSE 0)

Convert_count(c) == Iter_count(c.it)

\* --------------------------------------------------------------- Filter
\* Mutant: one inner next, whatever the predicate says.
Filter_loop_NoRetry(inner, f) == next(inner).c

RECURSIVE Filter_loop(_, _)
Filter_loop(inner, f) ==
    LET n == next(inner)
    IN  IF n.r = None THEN n.c
        ELSE IF ApplyPred(f, n.r[1]) THEN n.c
        ELSE Filter_loop(n.c, f)

Filter_advance(c) == [c EXCEPT !.it = Filter_loop(c.it, c.f), !.adv = @ + 1]
Filter_get(c) == get(c.it)
Filter_size_hint(c) == <<0, size_hint(c.it)[2]>>

\* ------------------------------------------------------------ FilterMap
RECURSIVE FilterMap_loop(_, _)
FilterMap_loop(inner, f) ==
    LET n == next(inner)
    IN  IF n.r = None THEN [it |-> n.c, item |-> None]
        ELSE LET b == ApplyFilterMap(f, n.r[1])
             IN  IF b # None THEN [it |-> n.c, item |-> b]
                 ELSE FilterMap_loop(n.c, f)

\* Mutant: the stored value is not cleared when the inner cursor is exhausted.
FilterMap_advance_KeepsItem(c) ==
    LET l == FilterMap_loop(c.it, c.f)
    IN  [c EXCEPT !.it = l.it,
                  !.item = IF l.item = None THEN @ ELSE l.item,
                  !.adv = @ + 1]

FilterMap_advance(c) ==
    LET l == FilterMap_loop(c.it, c.f)
    IN  [c EXCEPT !.it = l.it, !.item = l.item, !.adv = @ + 1]
FilterMap_get(c) == c.item
FilterMap_size_hint(c) == <<0, size_hint(c.it)[2]>>

\* ----------------------------------------------------------------- Fuse
\* Mutant: End is not a trap; advance delegates again as in Start.
Fuse_advance_NoTrap(c) ==
    LET i == advance(c.it)
    IN  [c EXCEPT !.it = i,
                  !.state = IF get(i) # None THEN "Middle" ELSE "End",
                  !.adv = @ + 1]

Fuse_advance(c) ==
    CASE c.state = "Start" ->
            LET i == advance(c.it)
            IN  [c EXCEPT !.it = i,
                          !.state = IF get(i) # None THEN "Middle" ELSE "End",
                          !.adv = @ + 1]
      [] c.state = "Middle" ->
            LET i == advance(c.it)
            IN  [c EXCEPT !.it = i,
                          !.state = IF get(i) = None THEN "End" ELSE @,
                          !.adv = @ + 1]
      [] c.state = "End" -> [c EXCEPT !.adv = @ + 1]

Fuse_get(c) == IF c.state \in {"Start", "End"} THEN None ELSE get(c.it)

\* Mutant: before the first advance the default hint is reported.
Fuse_size_hint_DefaultInStart(c) ==
    IF c.state = "Start" THEN Default_size_hint(c) ELSE size_hint(c.it)

Fuse_size_hint(c) == size_hint(c.it)

\* Mutant: in Middle the state is kept when the inner cursor reports nothing.
Fuse_next_KeepsMiddle(c) ==
    CASE c.state = "Start" ->
            LET n == next(c.it)
            IN  [c |-> [c EXCEPT !.it = n.c,
                                 !.state = IF n.r # None THEN "Middle" ELSE "End",
                                 !.adv = @ + 1],
                 r |-> n.r]
      [] c.state = "Middle" ->
            LET n == next(c.it)
            IN  [c |-> [c EXCEPT !.it = n.c, !.adv = @ + 1], r |-> n.r]
      [] c.state = "End" -> [c |-> [c EXCEPT !.adv = @ + 1], r |-> None]

\* Mutant: in End the inner cursor is still polled, its answer dropped.
Fuse_next_PollsInEnd(c) ==
    CASE c.state = "Start" ->
            LET n == next(c.it)
            IN  [c |-> [c EXCEPT !.it = n.c,
                                 !.state = IF n.r # None THEN "Middle" ELSE "End",
                                 !.adv = @ + 1],
                 r |-> n.r]
      [] c.state = "Middle" ->
            LET n == next(c.it)
            IN  [c |-> [c EXCEPT !.it = n.c,
                                 !.state = IF n.r = None THEN "End" ELSE @,
                                 !.adv = @ + 1],
                 r |-> n.r]
      [] c.state = "End" ->
            [c |-> [c EXCEPT !.it = next(c.it).c, !.adv = @ + 1], r |-> None]

Fuse_next(c) ==
    CASE c.state = "Start" ->
            LET n == next(c.it)
            IN  [c |-> [c EXCEPT !.it = n.c,
                                 !.state = IF n.r # None THEN "Middle" ELSE "End",
                                 !.adv = @ + 1],
                 r |-> n.r]
      [] c.state = "Middle" ->
            LET n == next(c.it)
            IN  [c |-> [c EXCEPT !.it = n.c,
                                 !.state = IF n.r = None THEN "End" ELSE @,
                                 !.adv = @ + 1],
                 r |-> n.r]
      [] c.state = "End" -> [c |-> [c EXCEPT !.adv = @ + 1], r |-> None]

\* Mutant: the state is not consulted; the inner cursor is counted in End too.
Fuse_count_IgnoresEnd(c) == count(c.it)

Fuse_count(c) == IF c.state \in {"Start", "Middle"} THEN count(c.it) ELSE 0

\* ------------------------------------------------------------------ Map
\* Mutant: the closure is not applied to the element.
Map_advance_Unmapped(c) ==
    LET n == next(c.it)
    IN  [c EXCEPT !.it = n.c, !.item = n.r, !.adv = @ + 1]

Map_advance(c) ==
    LET n == next(c.it)
    IN  [c EXCEPT !.it = n.c,
                  !.item = IF n.r = None THEN None ELSE Some(ApplyMap(c.f, n.r[1])),
                  !.adv = @ + 1]
Map_get(c) == c.item
Map_size_hint(c) == size_hint(c.it)

\* ----------------------------------------------------------------- Skip
\* Mutant: the first advance skips one element too few.
Skip_advance_OneTooFew(c) ==
    [c EXCEPT !.it = nth(c.it, Monus(c.n, 1)).c, !.n = 0, !.adv = @ + 1]

\* Mutant: the stored count is not zeroed after the first advance.
Skip_advance_KeepsCount(c) == [c EXCEPT !.it = nth(c.it, c.n).c, !.adv = @ + 1]

Skip_advance(c) == [c EXCEPT !.it = nth(c.it, c.n).c, !.n = 0, !.adv = @ + 1]
Skip_get(c) == get(c.it)

Skip_size_hint(c) ==
    LET hint == size_hint(c.it)
    IN  <<Monus(hint[1], c.n),
          IF hint[2] = None THEN None ELSE Some(Monus(hint[2][1], c.n))>>

\* ------------------------------------------------------------ SkipWhile
\* Mutant: the one-shot flag is never set; every advance skips again.
SkipWhile_advance_NeverDone(c) ==
    [c EXCEPT !.it = find(c.it, Not(c.f)).c, !.adv = @ + 1]

SkipWhile_advance(c) ==
    IF ~c.done
    THEN [c EXCEPT !.it = find(c.it, Not(c.f)).c, !.done = TRUE, !.adv = @ + 1]
    ELSE [c EXCEPT !.it = advance(c.it), !.adv = @ + 1]
SkipWhile_get(c) == get(c.it)
SkipWhile_size_hint(c) == <<0, size_hint(c.it)[2]>>

\* ----------------------------------------------------------------- Take
\* Mutant: the inner cursor is advanced also when the count is used up.
Take_advance_OneTooMany(c) ==
    IF c.n # 0
    THEN [c EXCEPT !.it = advance(c.it), !.n = @ - 1, !.adv = @ + 1]
    ELSE [c EXCEPT !.it = advance(c.it), !.done = TRUE, !.adv = @ + 1]

Take_advance(c) ==
    IF c.n # 0
    THEN [c EXCEPT !.it = advance(c.it), !.n = @ - 1, !.adv = @ + 1]
    ELSE [c EXCEPT !.done = TRUE, !.adv = @ + 1]
Take_get(c) == IF c.done THEN None ELSE get(c.it)
\* Mutant: the lower bound is not capped by the remaining count.
Take_size_hint_Uncapped(c) ==
    LET hint == size_hint(c.it)
    IN  <<hint[1], Some(c.n)>>

Take_size_hint(c) ==
    LET hint == size_hint(c.it)
    IN  <<Min(hint[1], c.n), Some(c.n)>>

\* ------------------------------------------------------------- &mut I
\* by_ref: a mutable borrow of the cursor.  While the borrow lives the
\* referent is reachable through it alone, so the handle carries the
\* referent; Released gives the original back as the handle left it.
by_ref(c) == [kind |-> "Ref", it |-> c, adv |-> 0]

\* Mutant: the handle works on a snapshot; the referent is not moved.
Ref_advance_Snapshot(c) == [c EXCEPT !.adv = @ + 1]

\* (**self).advance()
Ref_advance(c) == [c EXCEPT !.it = advance(c.it), !.adv = @ + 1]

\* (**self).get()
Ref_get(c) == get(c.it)

\* (**self).size_hint()
Ref_size_hint(c) == size_hint(c.it)

\* (**self).next()
Ref_next(c) ==
    LET n == next(c.it)
    IN  [c |-> [c EXCEPT !.it = n.c, !.adv = @ + 1], r |-> n.r]

\* ------------------------------------------------------ dynamic dispatch
advance(c) ==
    CASE c.kind = "Convert" -> Convert_advance(c)
      [] c.kind = "Flicker" -> Flicker_advance(c)
      [] c.kind = "Filter" -> Filter_advance(c)
      [] c.kind = "FilterMap" -> FilterMap_advance(c)
      [] c.kind = "Fuse" -> Fuse_advance(c)
      [] c.kind = "Map" -> Map_advance(c)
      [] c.kind = "Skip" -> Skip_advance(c)
      [] c.kind = "SkipWhile" -> SkipWhile_advance(c)
      [] c.kind = "Take" -> Take_advance(c)
      [] c.kind = "Ref" -> Ref_advance(c)

get(c) ==
    CASE c.kind = "Convert" -> Convert_get(c)
      [] c.kind = "Flicker" -> Flicker_get(c)
      [] c.kind = "Filter" -> Filter_get(c)
      [] c.kind = "FilterMap" -> FilterMap_get(c)
      [] c.kind = "Fuse" -> Fuse_get(c)
      [] c.kind = "Map" -> Map_get(c)
      [] c.kind = "Skip" -> Skip_get(c)
      [] c.kind = "SkipWhile" -> SkipWhile_get(c)
      [] c.kind = "Take" -> Take_get(c)
      [] c.kind = "Ref" -> Ref_get(c)

next(c) ==
    CASE c.kind = "Fuse" -> Fuse_next(c)
      [] c.kind = "Ref" -> Ref_next(c)
      [] OTHER -> Default_next(c)

size_hint(c) ==
    CASE c.kind = "Convert" -> Convert_size_hint(c)
      [] c.kind = "Flicker" -> Default_size_hint(c)
      [] c.kind = "Filter" -> Filter_size_hint(c)
      [] c.kind = "FilterMap" -> FilterMap_size_hint(c)
      [] c.kind = "Fuse" -> Fuse_size_hint(c)
      [] c.kind = "Map" -> Map_size_hint(c)
      [] c.kind = "Skip" -> Skip_size_hint(c)
      [] c.kind = "SkipWhile" -> SkipWhile_size_hint(c)
      [] c.kind = "Take" -> Take_size_hint(c)
      [] c.kind = "Ref" -> Ref_size_hint(c)

count(c) ==
    CASE c.kind = "Convert" -> Convert_count(c)
      [] c.kind = "Fuse" -> Fuse_count(c)
      [] OTHER -> Default_count(c)

\* The owned elements a traversal by next still produces, as the bridge
\* Cloned hands them out: next, cloned, until the first None.
RECURSIVE Cloned_collect(_)
Cloned_collect(c) ==
    LET n == next(c)
    IN  IF n.r = None THEN << >> ELSE <<n.r[1]>> \o Cloned_collect(n.c)

\* Clone::clone and ToOwned::to_owned of an element: a new value equal to the
\* one borrowed.  Option::map applies them under Some and keeps None.
Clone_clone(x) == x
ToOwned_to_owned(x) == x
Option_map(o, kind) ==
    IF o = None THEN None
    ELSE IF kind = "Cloned" THEN Some(Clone_clone(o[1]))
    ELSE Some(ToOwned_to_owned(o[1]))

\* The bridges to a value-producing iterator: a wrapper around the cursor.
cloned(c) == [kind |-> "Cloned", it |-> c, adv |-> 0]
owned(c) == [kind |-> "Owned", it |-> c, adv |-> 0]

\* Mutant: the element is read before the cursor is moved.
Cloned_next_ReadsFirst(w) ==
    [c |-> [w EXCEPT !.it = advance(w.it), !.adv = @ + 1],
     r |-> Option_map(get(w.it), "Cloned")]

\* Cloned::next: self.0.next().map(Clone::clone)
Cloned_next(w) ==
    LET n == next(w.it)
    IN  [c |-> [w EXCEPT !.it = n.c, !.adv = @ + 1],
         r |-> Option_map(n.r, "Cloned")]

\* Owned::next: self.0.next().map(ToOwned::to_owned)
Owned_next(w) ==
    LET n == next(w.it)
    IN  [c |-> [w EXCEPT !.it = n.c, !.adv = @ + 1],
         r |-> Option_map(n.r, "Owned")]

\* ------------------------------------------------------ chains under test
IsSource(c) == c.kind \in {"Convert", "Flicker"}

RECURSIVE Root(_)
Root(c) == IF IsSource(c) THEN c ELSE Root(c.it)

\* The sources: convert of a sequence of at most n values, and Flicker(0).
Sources(n) == {convert(s) : s \in SeqsUpTo(n)} \cup {Flicker(0)}

\* Every adaptor over the cursors of C, skip and take with counts up to m.
Wrap(C, m) ==
    {filter(c, f) : c \in C, f \in FilterPreds}
    \cup {filter_map(c, f) : c \in C, f \in FilterMapFns}
    \cup {fuse(c) : c \in C}
    \cup {map(c, f) : c \in C, f \in MapFns}
    \cup {skip(c, n) : c \in C, n \in 0..m}
    \cup {skip_while(c, f) : c \in C, f \in SkipWhilePreds}
    \cup {take(c, n) : c \in C, n \in 0..m}

\* A source alone or under one adaptor.
Singles == Sources(MaxLen) \cup Wrap(Sources(MaxLen), MaxN)

\* A source under a stack of at most d adaptors.
RECURSIVE ChainsUpTo(_)
ChainsUpTo(d) ==
    IF d = 0 THEN Sources(MaxChainLen)
    ELSE LET C == ChainsUpTo(d - 1)
         IN  C \cup Wrap(C, MaxChainN)

Chains == ChainsUpTo(MaxDepth)

\* ---------------------------------------------------------------- state
VARIABLES
    it0,       \* the cursor as constructed
    it,        \* the cursor being driven
    out,       \* what the last call returned (None for advance)
    lastop,    \* the last call: "new", "advance", "get", "next", "nth"
    arg,       \* the argument of the last call (0 when it takes none)
    seen,      \* the elements met, one per advance or next, up to the first None
    ended,     \* a call that moved the cursor has met None
    stepwise,  \* the cursor was moved by advance and next only
    it2,       \* a second, independent cursor (driven in SpecTS only)
    ended2,    \* the traversal of it2 has met None
    pred,      \* the closure handed to the last searching call ("" before it)
    flag       \* what the last all or any returned (FALSE before it)

vars == <<it0, it, out, lastop, arg, seen, ended, stepwise, it2, ended2, pred, flag>>

Fresh ==
    /\ it = it0
    /\ out = None
    /\ lastop = "new"
    /\ arg = 0
    /\ seen = << >>
    /\ ended = FALSE
    /\ stepwise = TRUE
    /\ ended2 = FALSE
    /\ pred = ""
    /\ flag = FALSE

Init ==
    /\ it0 \in Singles
    /\ it2 = it0
    /\ Fresh

Met(g) ==
    /\ seen' = IF ~ended /\ g # None THEN Append(seen, g[1]) ELSE seen
    /\ ended' = (ended \/ g = None)

\* it.advance()
DoAdvance ==
    /\ it.adv < MaxAdv
    /\ it' = advance(it)
    /\ out' = None
    /\ lastop' = "advance"
    /\ arg' = 0
    /\ Met(get(it'))
    /\ UNCHANGED <<it0, stepwise, it2, ended2, pred, flag>>

\* Mutant: get moves the cursor before it reads it.
DoGet_Consuming ==
    /\ it.adv < MaxAdv
    /\ it' = advance(it)
    /\ out' = get(it')
    /\ lastop' = "get"
    /\ arg' = 0
    /\ UNCHANGED <<it0, seen, ended, stepwise, it2, ended2, pred, flag>>

\* it.get()
DoGet ==
    /\ out' = get(it)
    /\ lastop' = "get"
    /\ arg' = 0
    /\ UNCHANGED <<it0, it, seen, ended, stepwise, it2, ended2, pred, flag>>

\* it.next()
DoNext ==
    /\ it.adv < MaxAdv
    /\ LET n == next(it)
       IN  /\ it' = n.c
           /\ out' = n.r
           /\ Met(n.r)
    /\ lastop' = "next"
    /\ arg' = 0
    /\ UNCHANGED <<it0, stepwise, it2, ended2, pred, flag>>

\* it.nth(n)
DoNth(n) ==
    /\ LET r == nth(it, n)
       IN  /\ r.c.adv <= MaxAdv
           /\ it' = r.c
           /\ out' = r.r
           /\ ended' = (ended \/ r.r = None)
    /\ lastop' = "nth"
    /\ arg' = n
    /\ stepwise' = FALSE
    /\ UNCHANGED <<it0, seen, it2, ended2, pred, flag>>

Next ==
    \/ DoAdvance
    \/ DoGet
    \/ DoNext
    \/ \E n \in 0..MaxNth : DoNth(n)

Spec == Init /\ [][Next]_vars

\* The searching calls, on the sources and on each adaptor over a source.
SearchPreds == {"even", "lt2"}

Searched(r, name, f) ==
    /\ r.c.adv <= MaxAdv
    /\ it' = r.c
    /\ ended' = (ended \/ get(r.c) = None)
    /\ lastop' = name
    /\ arg' = 0
    /\ pred' = f
    /\ stepwise' = FALSE
    /\ UNCHANGED <<it0, seen, it2, ended2>>

\* it.find(f)
DoFind(f) ==
    /\ LET r == find(it, f) IN Searched(r, "find", f) /\ out' = r.r
    /\ UNCHANGED flag

\* it.position(f)
DoPosition(f) ==
    /\ LET r == position(it, f) IN Searched(r, "position", f) /\ out' = r.r
    /\ UNCHANGED flag

\* it.all(f)
DoAll(f) ==
    /\ LET r == all(it, f) IN Searched(r, "all", f) /\ flag' = r.r
    /\ out' = None

\* it.any(f)
DoAny(f) ==
    /\ LET r == any(it, f) IN Searched(r, "any", f) /\ flag' = r.r
    /\ out' = None

NextSearch ==
    \/ DoNext
    \/ \E f \in SearchPreds : DoFind(f)
    \/ \E f \in SearchPreds : DoPosition(f)
    \/ \E f \in SearchPreds : DoAll(f)
    \/ \E f \in SearchPreds : DoAny(f)

SpecSearch == Init /\ [][NextSearch]_vars

\* Stacks of adaptors, driven by advance, get and next.
InitChain ==
    /\ it0 \in Chains
    /\ it2 = it0
    /\ Fresh

NextChain ==
    \/ DoAdvance
    \/ DoGet
    \/ DoNext

SpecChain == InitChain /\ [][NextChain]_vars

\* Two independent traversals of one source: take(C, k) is drained by next,
\* then skip(C', k) is; seen collects what the two yield, in that order.
InitTS ==
    /\ \E s \in SeqsUpTo(MaxLen) : \E k \in 0..Len(s) :
          /\ it0 = take(convert(s), k)
          /\ it2 = skip(convert(s), k)
    /\ Fresh

TakeNext ==
    /\ ~ended
    /\ LET n == next(it)
       IN  /\ it' = n.c
           /\ out' = n.r
           /\ Met(n.r)
    /\ lastop' = "next"
    /\ UNCHANGED <<it0, arg, stepwise, it2, ended2, pred, flag>>

SkipNext ==
    /\ ended
    /\ ~ended2
    /\ LET n == next(it2)
       IN  /\ it2' = n.c
           /\ out' = n.r
           /\ seen' = IF n.r # None THEN Append(seen, n.r[1]) ELSE seen
           /\ ended2' = (n.r = None)
    /\ lastop' = "next"
    /\ UNCHANGED <<it0, it, arg, ended, stepwise, pred, flag>>

NextTS ==
    \/ TakeNext
    \/ SkipNext

SpecTS == InitTS /\ [][NextTS]_vars

\* ------------------------------------------------------------ properties
RootIsConvert(c) == Root(c).kind = "Convert"

\* The sequence handed to convert when the cursor was built.
Src == Root(it0).it.slice

TakeSeq(s, n) == SubSeq(s, 1, Min(n, Len(s)))
DropSeq(s, n) == IF n >= Len(s) THEN << >> ELSE SubSeq(s, n + 1, Len(s))
IsPrefix(p, s) == Len(p) <= Len(s) /\ p = TakeSeq(s, Len(p))

\* The source elements the root Convert has pulled so far.
Consumed == TakeSeq(Src, Len(Src) - Len(Root(it).it.slice))

TypeOK ==
    lastop \in {"new", "advance", "get", "next", "nth", "find", "position", "all", "any",
                "release", "count"}

\* The index in s of the first element that satisfies f, 0 when there is none.
FirstIndex(s, f) ==
    IF \E i \in 1..Len(s) : ApplyPred(f, s[i])
    THEN CHOOSE i \in 1..Len(s) :
            /\ ApplyPred(f, s[i])
            /\ \A j \in 1..(i - 1) : ~ApplyPred(f, s[j])
    ELSE 0

\* C1: a fused cursor over any inner cursor, one that yields again after a
\* gap included, has get return nothing before its first advance; and once
\* get returns nothing after an advance, or next has returned nothing, every
\* later get, advance-then-get and next returns nothing too.
C1_FuseTotality ==
    [][it.kind = "Fuse" =>
         /\ (it.adv = 0 => get(it) = None)
         /\ ((it.adv > 0 /\ get(it) = None) \/ (lastop = "next" /\ out = None))
               => (get(it') = None /\ out' = None)]_vars

\* A fused Flicker reported the gap, was called twice more, and its inner
\* cursor would yield again if it were advanced.
C1_Witness ==
    /\ it.kind = "Fuse"
    /\ it.it.kind = "Flicker"
    /\ it.adv >= 5
    /\ lastop = "next"
    /\ out = None
    /\ get(advance(it.it)) # None

C3_FilterExact ==
    (it0.kind = "Filter" /\ it0.it.kind = "Convert" /\ stepwise) =>
        /\ seen = SelectSeq(Consumed, LAMBDA x : ApplyPred(it0.f, x))
        /\ (ended => seen = SelectSeq(Src, LAMBDA x : ApplyPred(it0.f, x)))

\* A filter that has ended after yielding two elements and dropping one
\* that stood between them.
C3_Witness ==
    /\ it0.kind = "Filter"
    /\ it0.it.kind = "Convert"
    /\ ended
    /\ Len(seen) = 2
    /\ Len(Src) = 3
    /\ ~ApplyPred(it0.f, Src[2])

\* C4: map(C, F) over a cursor C rooted at convert yields F of each element
\* C yields, in order and as many; each Map advance is one advance of C; and
\* after an advance Map has nothing exactly when C has nothing.
C4_MapHomomorphism ==
    (it0.kind = "Map" /\ RootIsConvert(it0) /\ stepwise) =>
        LET inner == Cloned_collect(it0.it)
        IN  /\ Len(seen) <= Len(inner)
            /\ \A i \in 1..Len(seen) : seen[i] = ApplyMap(it0.f, inner[i])
            /\ (ended => Len(seen) = Len(inner))
            /\ it.it.adv = it.adv
            /\ (it.adv > 0 => (get(it) = None <=> get(it.it) = None))

\* A map that yielded two elements and then nothing.
C4_Witness ==
    /\ it0.kind = "Map"
    /\ RootIsConvert(it0)
    /\ ended
    /\ Len(seen) = 2
    /\ it.adv > 3

\* C5: for a source of length L and 0 <= k <= L, what take(C, k) yields
\* followed by what skip(C', k) yields, C and C' being two traversals of
\* the same source, is the source sequence.
C5_TakeSkipComplement ==
    /\ IsPrefix(seen, Src)
    /\ (~ended => seen = TakeSeq(Src, it.adv))
    /\ (ended => Len(seen) >= it0.n)
    /\ (ended2 => seen = Src)

\* Both traversals are finished and each yielded something.
C5_Witness ==
    /\ ended2
    /\ it0.n > 0
    /\ it0.n < Len(Src)
    /\ it2.adv = Len(Src) - it0.n + 1

\* The edge cases: k = 0 and k = L on a non-empty source.
C5_WitnessEdges ==
    /\ ended2
    /\ Len(Src) > 0
    /\ it0.n \in {0, Len(Src)}

\* C6: for every chain rooted at convert, in every reachable state, the
\* lower size hint is at most what count would return from that state, and
\* that is at most the upper size hint when there is one.
C6_SizeHintBoundsCount ==
    RootIsConvert(it) =>
        LET hint == size_hint(it)
            n == count(it)
        IN  /\ hint[1] <= n
            /\ (hint[2] # None => n <= hint[2][1])

\* A stack of two adaptors, mid-traversal, with elements left and a lower
\* hint that is positive and exact.
C6_Witness ==
    /\ RootIsConvert(it)
    /\ ~IsSource(it)
    /\ ~IsSource(it.it)
    /\ it.adv > 0
    /\ size_hint(it)[1] > 0
    /\ count(it) = size_hint(it)[1]

\* C7: for every chain rooted at convert, the lower size hint never grows
\* across an advance or a next.
C7_LowerHintNonIncreasing ==
    [][RootIsConvert(it) => size_hint(it')[1] <= size_hint(it)[1]]_vars

\* A skip whose first advance has just zeroed a pending positive count,
\* its lower bound having been positive before.
C7_Witness ==
    /\ RootIsConvert(it)
    /\ it.kind = "Skip"
    /\ it0.n > 0
    /\ it.adv = 1
    /\ it.n = 0
    /\ size_hint(it0)[1] > size_hint(it)[1]

\* C8: take(C, n) over convert of L elements yields the first min(n, L)
\* elements and then nothing; it never advances C more than n times; and the
\* advance that sets the exhausted flag leaves C where its next advance
\* yields the element at index n.
C8_TakeStopsAtN ==
    (it0.kind = "Take" /\ it0.it.kind = "Convert") =>
        /\ it.it.adv <= it0.n
        /\ it.it.adv = Min(it.adv, it0.n)
        /\ (stepwise /\ ~ended => seen = TakeSeq(Src, it.adv))
        /\ (stepwise /\ ended => seen = TakeSeq(Src, it0.n))
        /\ (ended => get(it) = None)
        /\ (it.done =>
              /\ it.it.adv = it0.n
              /\ get(advance(it.it)) =
                    IF it0.n < Len(Src) THEN Some(Src[it0.n + 1]) ELSE None)

\* A take that is exhausted, was advanced again, and whose inner cursor has
\* the element at index n still to come.
C8_Witness ==
    /\ it0.kind = "Take"
    /\ it0.it.kind = "Convert"
    /\ it0.n > 0
    /\ it0.n < Len(Src)
    /\ it.done
    /\ it.adv > it0.n + 1

\* C9: skip(C, n) over convert of L elements yields the elements at indices
\* n .. L-1 in order and then nothing; when n >= L, get returns nothing after
\* every advance.
C9_SkipDropsPrefix ==
    (it0.kind = "Skip" /\ it0.it.kind = "Convert") =>
        /\ (stepwise /\ ~ended => seen = TakeSeq(DropSeq(Src, it0.n), it.adv))
        /\ (stepwise /\ ended => seen = DropSeq(Src, it0.n))
        /\ (ended => get(it) = None)
        /\ (it0.n >= Len(Src) /\ it.adv > 0 => get(it) = None)

\* A skip that dropped a proper, non-empty prefix, yielded the rest in more
\* than one step and ended.
C9_Witness ==
    /\ it0.kind = "Skip"
    /\ it0.it.kind = "Convert"
    /\ it0.n > 0
    /\ ended
    /\ Len(seen) >= 2

\* A skip of more elements than the source has, advanced several times.
C9_WitnessOverrun ==
    /\ it0.kind = "Skip"
    /\ it0.it.kind = "Convert"
    /\ it0.n > Len(Src)
    /\ Len(Src) > 0
    /\ it.adv >= 3

\* C10: nth(n) on a cursor rooted at convert with R elements remaining
\* returns the remaining element of index n and stays on it when n < R;
\* when n >= R it returns nothing, having advanced R + 1 times: it stops at
\* the first advance after which get reports nothing.
C10_Nth ==
    [][(lastop' = "nth" /\ RootIsConvert(it)) =>
         LET rest == Cloned_collect(it)
             n == arg'
         IN  IF n < Len(rest)
             THEN /\ out' = Some(rest[n + 1])
                  /\ get(it') = out'
                  /\ Cloned_collect(it') = DropSeq(rest, n + 1)
                  /\ it'.adv = it.adv + n + 1
             ELSE /\ out' = None
                  /\ get(it') = None
                  /\ it'.adv = it.adv + Len(rest) + 1]_vars

\* nth(n) with n past the end ran into exhaustion before n advances.
C10_Witness ==
    /\ lastop = "nth"
    /\ it0.kind = "Convert"
    /\ Len(Src) = 1
    /\ arg = 2
    /\ out = None
    /\ it.adv = 2

\* nth(n) returned an element other than the first one remaining.
C10_WitnessHit ==
    /\ lastop = "nth"
    /\ RootIsConvert(it)
    /\ arg > 0
    /\ out # None
    /\ it.adv > arg + 1

\* C11: find(P) on a cursor rooted at convert returns the first remaining
\* element that satisfies P after (its index + 1) advances and stays on it, so
\* that get returns it again; when none satisfies P it returns nothing and
\* stops at the first position where get reports nothing.
C11_Find ==
    [][(lastop' = "find" /\ RootIsConvert(it)) =>
         LET rest == Cloned_collect(it)
             i == FirstIndex(rest, pred')
         IN  IF i > 0
             THEN /\ out' = Some(rest[i])
                  /\ get(it') = out'
                  /\ it'.adv = it.adv + i
                  /\ Cloned_collect(it') = DropSeq(rest, i)
             ELSE /\ out' = None
                  /\ get(it') = None
                  /\ it'.adv = it.adv + Len(rest) + 1]_vars

\* find passed over an element that fails P and returned a later one, from a
\* cursor that already stood on an element.
C11_Witness ==
    /\ lastop = "find"
    /\ RootIsConvert(it)
    /\ out # None
    /\ it.adv >= 3
    /\ ~ended
    /\ Len(Src) = 3
    /\ ~ApplyPred(pred, Src[2])

\* find ran out of elements without a match, on a source that is not empty.
C11_WitnessMiss ==
    /\ lastop = "find"
    /\ it0.kind = "Convert"
    /\ out = None
    /\ Len(Src) >= 2
    /\ it.adv = Len(Src) + 1

\* C12: position(P) on a cursor rooted at convert returns the zero-based
\* index, from the current position, of the first remaining element that
\* satisfies P, and consumes the elements up to and including it; when none
\* satisfies P it returns nothing and has consumed every element.
C12_Position ==
    [][(lastop' = "position" /\ RootIsConvert(it)) =>
         LET rest == Cloned_collect(it)
             i == FirstIndex(rest, pred')
         IN  IF i > 0
             THEN /\ out' = Some(i - 1)
                  /\ it'.adv = it.adv + i
                  /\ Cloned_collect(it') = DropSeq(rest, i)
             ELSE /\ out' = None
                  /\ get(it') = None
                  /\ Cloned_collect(it') = << >>
                  /\ it'.adv = it.adv + Len(rest) + 1]_vars

\* position returned index 1 counted from a position that is not the start:
\* the match is the third element of the source.
C12_Witness ==
    /\ lastop = "position"
    /\ it0.kind = "Convert"
    /\ Len(Src) = 3
    /\ out = Some(1)
    /\ it.adv = 3

\* C13: all(P) is true exactly when every remaining element satisfies P and
\* any(P) exactly when some remaining element does, any(P) being the
\* negation of all(not P); both stop at the first element that decides the
\* result, and the elements after it are still to come.
C13_AllAny ==
    [][(lastop' \in {"all", "any"} /\ RootIsConvert(it)) =>
         LET rest == Cloned_collect(it)
             decides == IF lastop' = "all" THEN Not(pred') ELSE pred'
             i == FirstIndex(rest, decides)
         IN  /\ (lastop' = "all" =>
                    flag' = (\A k \in 1..Len(rest) : ApplyPred(pred', rest[k])))
             /\ (lastop' = "any" =>
                    /\ flag' = (\E k \in 1..Len(rest) : ApplyPred(pred', rest[k]))
                    /\ flag' = ~all(it, Not(pred')).r)
             /\ IF i > 0
                THEN /\ it'.adv = it.adv + i
                     /\ get(it') = Some(rest[i])
                     /\ Cloned_collect(it') = DropSeq(rest, i)
                ELSE /\ it'.adv = it.adv + Len(rest) + 1
                     /\ get(it') = None]_vars

\* all returned false at the second of three elements, the third still to come.
C13_Witness ==
    /\ lastop = "all"
    /\ it0.kind = "Convert"
    /\ ~flag
    /\ Len(Src) = 3
    /\ it.adv = 2
    /\ it.it.slice # << >>

\* any returned true at the second of three elements, the third still to come.
C13_WitnessAny ==
    /\ lastop = "any"
    /\ it0.kind = "Convert"
    /\ flag
    /\ Len(Src) = 3
    /\ it.adv = 2
    /\ it.it.slice # << >>

\* s without its longest prefix of elements that satisfy f.
DropWhile(s, f) ==
    LET i == FirstIndex(s, Not(f))
    IN  IF i = 0 THEN << >> ELSE DropSeq(s, i - 1)

\* C14: skip_while(C, P) over convert of S yields S without its longest
\* prefix of elements satisfying P: the first element that fails P is kept,
\* every element after it is yielded whether it satisfies P or not, and
\* nothing is yielded when every element satisfies P.
C14_SkipWhile ==
    (it0.kind = "SkipWhile" /\ it0.it.kind = "Convert") =>
        /\ (it.adv > 0 => it.done)
        /\ (stepwise /\ ~ended => seen = TakeSeq(DropWhile(Src, it0.f), it.adv))
        /\ (stepwise /\ ended => seen = DropWhile(Src, it0.f))
        /\ (ended => get(it) = None)
        /\ ((\A i \in 1..Len(Src) : ApplyPred(it0.f, Src[i])) /\ it.adv > 0
               => get(it) = None)

\* One element was dropped, the first failing one was kept, and an element
\* after it that satisfies P was yielded all the same.
C14_Witness ==
    /\ it0.kind = "SkipWhile"
    /\ it0.it.kind = "Convert"
    /\ stepwise
    /\ ended
    /\ Len(Src) = 3
    /\ Len(seen) = 2
    /\ ~ApplyPred(it0.f, seen[1])
    /\ ApplyPred(it0.f, seen[2])

\* The values f accepts among the elements of s, mapped, in order.
RECURSIVE FilterMapSeq(_, _)
FilterMapSeq(s, f) ==
    IF s = << >> THEN << >>
    ELSE ApplyFilterMap(f, Head(s)) \o FilterMapSeq(Tail(s), f)

\* C15: filter_map(C, F) over convert of S yields, in order, the values v
\* with F(x) = Some(v) for the elements x of S, duplicates included; each
\* advance consumes the source up to and including the first element F
\* accepts; and once the source is exhausted get returns nothing.
C15_FilterMap ==
    (it0.kind = "FilterMap" /\ it0.it.kind = "Convert") =>
        /\ (stepwise => seen = FilterMapSeq(Consumed, it0.f))
        /\ (stepwise /\ ended => seen = FilterMapSeq(Src, it0.f))
        /\ (ended => get(it) = None /\ Consumed = Src)
        /\ (~ended /\ it.adv > 0 =>
              /\ get(it) = ApplyFilterMap(it0.f, Consumed[Len(Consumed)])
              /\ get(it) # None)

\* Two equal values were yielded, an element between them was rejected, and
\* the cursor was advanced again after it had reported nothing.
C15_Witness ==
    /\ it0.kind = "FilterMap"
    /\ it0.it.kind = "Convert"
    /\ stepwise
    /\ ended
    /\ Len(Src) = 3
    /\ Len(seen) = 2
    /\ seen[1] = seen[2]
    /\ it.adv >= 4

\* C17: convert of S reports nothing before the first advance, the i-th
\* element of S after the i-th advance, and nothing after every advance past
\* the last element, never an element it reported before.
C17_Convert ==
    it0.kind = "Convert" =>
        get(it) = IF it.adv = 0 \/ it.adv > Len(Src)
                  THEN None
                  ELSE Some(Src[it.adv])

\* A non-empty source was advanced twice past its last element and get then
\* reported nothing.
C17_Witness ==
    /\ it0.kind = "Convert"
    /\ Len(Src) >= 1
    /\ it.adv >= Len(Src) + 2
    /\ lastop = "get"
    /\ out = None

\* The number of elements the inner cursor of it0 yields before its first
\* nothing.
InnerRemaining == Len(Cloned_collect(it0.it))

\* C19 as stated: the first advance of skip(C, n) consumes n + 1 advances of
\* the inner cursor and zeroes the stored count, and every later advance
\* consumes exactly one more.
C19_Original ==
    (it0.kind = "Skip" /\ it.adv >= 1) =>
        /\ it.n = 0
        /\ it.it.adv = it0.n + it.adv

\* C19, amended: the first advance of skip(C, n) consumes min(n, r) + 1
\* advances of the inner cursor, r being the number of elements the inner
\* cursor yields before its first nothing (n + 1 when it has at least n),
\* and zeroes the stored count; every later advance consumes exactly one
\* inner advance and the stored count stays 0.
C19_SkipInnerAdvances ==
    it0.kind = "Skip" =>
        /\ (it.adv = 0 => it.n = it0.n /\ it.it.adv = 0)
        /\ (it.adv >= 1 =>
              /\ it.n = 0
              /\ it.it.adv = Min(it0.n, InnerRemaining) + it.adv)

\* A skip of more elements than the inner cursor has was advanced twice.
C19_Witness ==
    /\ it0.kind = "Skip"
    /\ RootIsConvert(it0)
    /\ it0.n > Len(Src)
    /\ Len(Src) >= 1
    /\ it.adv >= 2

\* A skip within the inner cursor's length: the first advance took n + 1.
C19_WitnessWithin ==
    /\ it0.kind = "Skip"
    /\ RootIsConvert(it0)
    /\ it0.n = 2
    /\ Len(Src) = 3
    /\ it.adv = 1
    /\ it.it.adv = 3

\* ------------------------------------------------- the bridges, driven
\* A source wrapped by cloned() or owned() and driven by Iterator::next.
InitBridge ==
    /\ it0 \in {cloned(c) : c \in Sources(MaxLen)}
               \cup {owned(c) : c \in Sources(MaxLen)}
    /\ it2 = it0
    /\ Fresh

ClonedNext ==
    /\ it.kind = "Cloned"
    /\ it.adv < MaxAdv
    /\ LET n == Cloned_next(it)
       IN  /\ it' = n.c
           /\ out' = n.r
           /\ Met(n.r)
    /\ lastop' = "next"
    /\ arg' = 0
    /\ UNCHANGED <<it0, stepwise, it2, ended2, pred, flag>>

OwnedNext ==
    /\ it.kind = "Owned"
    /\ it.adv < MaxAdv
    /\ LET n == Owned_next(it)
       IN  /\ it' = n.c
           /\ out' = n.r
           /\ Met(n.r)
    /\ lastop' = "next"
    /\ arg' = 0
    /\ UNCHANGED <<it0, stepwise, it2, ended2, pred, flag>>

NextBridge == ClonedNext \/ OwnedNext

SpecBridge == InitBridge /\ [][NextBridge]_vars

\* C16: convert(S).cloned() and convert(S).owned() produce exactly the
\* elements of S in order, with one advance of the source per call of next,
\* and report the end at the call on which the source is exhausted: not
\* before the last element, and with no element after it.
C16_BridgeRoundTrip ==
    it0.it.kind = "Convert" =>
        LET S == it0.it.it.slice
        IN  /\ it.it.adv = it.adv
            /\ seen = TakeSeq(S, it.adv)
            /\ ended <=> it.adv > Len(S)
            /\ ended => seen = S
            /\ lastop = "next" =>
                  out = IF it.adv <= Len(S) THEN Some(S[it.adv]) ELSE None

\* A three-element source was produced in full through cloned() and the
\* fourth call reported the end.
C16_Witness ==
    /\ it0.kind = "Cloned"
    /\ it0.it.kind = "Convert"
    /\ Len(it0.it.it.slice) = 3
    /\ seen = it0.it.it.slice
    /\ ended
    /\ it.adv = 4
    /\ out = None

\* The same through owned().
C16_WitnessOwned ==
    /\ it0.kind = "Owned"
    /\ it0.it.kind = "Convert"
    /\ Len(it0.it.it.slice) = 3
    /\ seen = it0.it.it.slice
    /\ ended
    /\ it.adv = 4

\* ----------------------------------------------- a borrowed cursor, driven
\* it is a handle on a cursor, by_ref(c) or by_ref(c).take(k), and later the
\* original c itself; it2 is an equal cursor that is used directly, c or
\* take(c, k), and receives the same calls.
IsHandle(h) == h.kind = "Ref" \/ (h.kind = "Take" /\ h.it.kind = "Ref")

\* The cursor a handle stands for.
Referent(h) == IF h.kind = "Ref" THEN h.it ELSE h.it.it

\* The cursor that is driven directly in place of the handle h.
Direct(h) ==
    IF h.kind = "Ref" THEN h.it
    ELSE IF h.kind = "Take" /\ h.it.kind = "Ref" THEN [h EXCEPT !.it = h.it.it]
    ELSE h

InitRef ==
    /\ \E c \in Singles :
          it0 \in {by_ref(c)} \cup {take(by_ref(c), k) : k \in 0..MaxN}
    /\ it2 = Direct(it0)
    /\ Fresh

BothAdvance ==
    /\ it.adv < MaxAdv
    /\ it' = advance(it)
    /\ it2' = advance(it2)
    /\ out' = None
    /\ lastop' = "advance"
    /\ arg' = 0
    /\ Met(get(it'))
    /\ UNCHANGED <<it0, stepwise, ended2, pred, flag>>

BothGet ==
    /\ out' = get(it)
    /\ lastop' = "get"
    /\ arg' = 0
    /\ UNCHANGED <<it0, it, seen, ended, stepwise, it2, ended2, pred, flag>>

BothNext ==
    /\ it.adv < MaxAdv
    /\ LET n == next(it)
       IN  /\ it' = n.c
           /\ out' = n.r
           /\ Met(n.r)
    /\ it2' = next(it2).c
    /\ lastop' = "next"
    /\ arg' = 0
    /\ UNCHANGED <<it0, stepwise, ended2, pred, flag>>

\* The borrow ends: the adaptor built on the handle is dropped and the
\* original is used again.  The directly driven adaptor gives its inner
\* cursor back the same way.
Released ==
    /\ IsHandle(it)
    /\ it' = Referent(it)
    /\ it2' = IF it.kind = "Take" THEN it2.it ELSE it2
    /\ out' = None
    /\ lastop' = "release"
    /\ arg' = 0
    /\ ended' = FALSE
    /\ UNCHANGED <<it0, seen, stepwise, ended2, pred, flag>>

NextRef == BothAdvance \/ BothGet \/ BothNext \/ Released

SpecRef == InitRef /\ [][NextRef]_vars

\* C18: a by_ref handle is the cursor itself.  Every call through the handle
\* returns what the same call on the cursor returns and leaves the cursor in
\* the same state; and when by_ref() or by_ref().take(k) has been driven and
\* dropped, the original goes on from where the handle left it: the elements
\* met through the handle and then through the original are those of the
\* original traversed alone, none repeated, none skipped.
C18_ByRefIsSameCursor ==
    /\ Direct(it) = it2
    /\ get(it) = get(it2)
    /\ size_hint(it) = size_hint(it2)
    /\ next(it).r = next(it2).r
    /\ Direct(advance(it)) = advance(it2)
    /\ Direct(next(it).c) = next(it2).c
    /\ RootIsConvert(it0) =>
          LET whole == Cloned_collect(Referent(it0))
          IN  /\ seen = TakeSeq(whole, Len(seen))
              /\ (~IsHandle(it) /\ ended) => seen = whole

\* by_ref().take(1) over a three-element source was driven to its end and
\* dropped, and the original then produced the other two elements and ended.
C18_Witness ==
    /\ it0.kind = "Take"
    /\ it0.n = 1
    /\ it0.it.it.kind = "Convert"
    /\ Len(Src) = 3
    /\ ~IsHandle(it)
    /\ ended
    /\ seen = Src
    /\ it.adv = 4

\* The cursors of a chain, outermost first.
RECURSIVE Layers(_)
Layers(c) == <<c>> \o (IF IsSource(c) THEN << >> ELSE Layers(c.it))

\* A Fuse is in Middle only while its inner cursor's get yields an element,
\* and in Start only as long as it was never moved.
FuseStateSound(c) ==
    \A i \in 1..Len(Layers(c)) :
        LET f == Layers(c)[i]
        IN  f.kind = "Fuse" =>
              /\ f.state \in {"Start", "Middle", "End"}
              /\ f.state = "Middle" => get(f.it) # None
              /\ f.state = "Start" <=> f.adv = 0

\* C20: the state of every Fuse of the chain only moves Start -> Middle,
\* Start -> End or Middle -> End under advance, next and get: Start is never
\* re-entered, End is never left, the state is Middle only while the inner
\* cursor's get yields an element, and a Fuse in End leaves its inner cursor
\* as it is whatever is called.
C20_FuseTransitions ==
    [][/\ FuseStateSound(it)
       /\ FuseStateSound(it')
       /\ \A i \in 1..Len(Layers(it)) :
             LET f == Layers(it)[i]
                 g == Layers(it')[i]
             IN  f.kind = "Fuse" =>
                   /\ <<f.state, g.state>> \in
                         {<<"Start", "Start">>, <<"Start", "Middle">>,
                          <<"Start", "End">>, <<"Middle", "Middle">>,
                          <<"Middle", "End">>, <<"End", "End">>}
                   /\ f.state = "End" => g.it = f.it
                   /\ lastop' = "get" => g = f]_vars

\* A Fuse over a cursor that yields again after its first nothing was taken
\* from Start through Middle to End and called twice more; the inner cursor
\* stands where the Fuse first met nothing.
C20_Witness ==
    /\ it0.kind = "Fuse"
    /\ it0.it.kind = "Flicker"
    /\ it.state = "End"
    /\ it.adv = 5
    /\ it.it.adv = 3
    /\ lastop = "next"

\* A Fuse went from Start to End at once, over an empty source.
C20_WitnessStartEnd ==
    /\ it0.kind = "Fuse"
    /\ it0.it.kind = "Convert"
    /\ Src = << >>
    /\ it.state = "End"
    /\ it.adv = 1

\* ------------------------------------------------------ chains, counted
\* A chain is moved by advance and next and then consumed by count, which
\* takes the cursor by value: nothing is called on it afterwards.
DoCount ==
    /\ lastop # "count"
    /\ arg' = count(it)
    /\ lastop' = "count"
    /\ out' = None
    /\ UNCHANGED <<it0, it, seen, ended, stepwise, it2, ended2, pred, flag>>

NextCount ==
    \/ lastop # "count" /\ DoAdvance
    \/ lastop # "count" /\ DoNext
    \/ DoCount

SpecCount == InitChain /\ [][NextCount]_vars

\* C21: count, called on a Convert or a Fuse in any state the cursor can be
\* in, returns what the default loop (next until the first nothing, counting
\* the elements) returns from that state: for a Convert the number of
\* elements not yet produced, the stored one not counted; for a Fuse 0 in
\* End and the count of the inner cursor in Start and Middle.
C21_CountOverrides ==
    (lastop = "count" /\ it.kind \in {"Convert", "Fuse"}) =>
        /\ arg = Default_count(it)
        /\ it.kind = "Convert" =>
              arg = Len(it0.it.slice) - Min(it.adv, Len(it0.it.slice))
        /\ it.kind = "Fuse" =>
              arg = IF it.state = "End" THEN 0 ELSE Default_count(it.it)

\* A Fuse in End over a cursor that would yield again was counted: 0.
C21_Witness ==
    /\ lastop = "count"
    /\ it.kind = "Fuse"
    /\ it.state = "End"
    /\ it.it.kind = "Flicker"
    /\ Default_count(it.it) > 0
    /\ arg = 0

\* A Convert holding its first element of two was counted: 1.
C21_WitnessConvert ==
    /\ lastop = "count"
    /\ it.kind = "Convert"
    /\ Len(it0.it.slice) = 2
    /\ it.adv = 1
    /\ it.item # None
    /\ arg = 1

\* A Fuse in Middle was counted and elements were left.
C21_WitnessMiddle ==
    /\ lastop = "count"
    /\ it.kind = "Fuse"
    /\ it.state = "Middle"
    /\ arg >= 1

\* C22: Fuse::next does what the default next does, advance and then get.
\* Whenever next is called on a Fuse, in Start, Middle or End and over any
\* inner cursor, its result, the Fuse state it leaves and the number of
\* advances the inner cursor has received are those of advance followed by
\* get; and the same holds of every Fuse further down the chain.
C22_FuseNextIsDefaultNext ==
    [][/\ (lastop' = "next" /\ it.kind = "Fuse") =>
             LET a == Fuse_advance(it)
             IN  /\ out' = Fuse_get(a)
                 /\ it'.state = a.state
                 /\ Root(it').adv = Root(a).adv
                 /\ it' = a
       /\ \A i \in 1..Len(Layers(it)) :
             LET f == Layers(it)[i]
             IN  f.kind = "Fuse" => Fuse_next(f) = Default_next(f)]_vars

\* next was called on a Fuse in End whose inner cursor would have yielded
\* again: nothing was returned and the inner cursor was left alone.
C22_Witness ==
    /\ it0.kind = "Fuse"
    /\ it0.it.kind = "Flicker"
    /\ lastop = "next"
    /\ out = None
    /\ it.state = "End"
    /\ it.adv = 4
    /\ it.it.adv = 3
    /\ get(advance(it.it)) # None

\* next took a Fuse from Start to Middle.
C22_WitnessStart ==
    /\ it0.kind = "Fuse"
    /\ lastop = "next"
    /\ it.adv = 1
    /\ it.state = "Middle"
    /\ out # None

\* next took a Fuse from Middle to End.
C22_WitnessMiddle ==
    /\ it0.kind = "Fuse"
    /\ RootIsConvert(it0)
    /\ lastop = "next"
    /\ it.adv = 2
    /\ it.state = "End"
    /\ Len(seen) = 1
====
